---- MODULE Spec2Model ----
(***************************************************************************)
(* Model of adore::planner::OptiNLCTrajectoryPlanner                       *)
(* (src/src/optinlc_trajectory_planner.cpp).                               *)
(*                                                                         *)
(* Arc lengths are integers in units of 0.75 m (the downsampling spacing   *)
(* of line 322 is then 1 unit).  Speeds, steering rates, headings and the  *)
(* objective are small integers.  The spline library (pp), the OCP solver, *)
(* the route and the map are external: their results are inputs of the     *)
(* actions, drawn from small sets.  The members written only by the        *)
(* reference-velocity code (reference_velocity, distance_to_goal, tau) are *)
(* results of that external arithmetic, are read by no branch of           *)
(* plan_trajectory, and are left out of the state.                         *)
(***************************************************************************)
EXTENDS Integers, Sequences, FiniteSets, TLC

(* ------------------------------ bounds --------------------------------- *)

\* largest arc-length key of a center-lane sample
MaxS == 9
\* largest ego arc-length returned by Route::get_s
MaxEgoS == 1
\* largest number of center-lane samples of a route
MaxSamples == 3

(* ------------------- planner constants (header) ------------------------ *)

control_points == 3
sim_time == 2
max_forward_speed == 4
max_reverse_speed == -2
max_steering_velocity == 1
threshold_bad_output == 5
min_distance_in_route == 1
bad_counter_init == 0

(* ------------------- constants of the .cpp file ------------------------ *)

\* line 322: local_progress - previous_s > 0.75, in units of 0.75 m
sample_spacing == 1
\* line 332: route_to_follow.s.size() < 3
min_route_samples == 3
\* line 165: bad_counter > 4
bad_counter_reset_above == 4
\* line 206: bad_counter < 5
bad_counter_limit == 5

VARIABLES
  bad_counter,          \* member bad_counter
  bad_condition,        \* member bad_condition
  previous_trajectory,  \* member previous_trajectory (sequence of states)
  route_x,              \* member route_x       (piecewise polynomial)
  route_y,              \* member route_y
  route_heading,        \* member route_heading
  route_to_follow,      \* member route_to_follow: [s, psi]
  crashed,              \* the process was terminated by undefined behaviour
  call                  \* observation of the last call: inputs, locals, result

vars == <<bad_counter, bad_condition, previous_trajectory, route_x, route_y,
          route_heading, route_to_follow, crashed, call>>

(* ------------------------- external data types ------------------------- *)

\* a piecewise polynomial of the spline library, reduced to its breakpoints
EmptySpline == [breaks |-> <<>>]

\* route_to_piecewise_polynomial as default-constructed (line 291)
EmptyRoute == [x |-> EmptySpline, y |-> EmptySpline, heading |-> EmptySpline]

\* pp.CubicSplineSmoother: the fitted spline has the sample positions as breaks
CubicSplineSmoother(s) == [breaks |-> s]

\* std::atan2( dy, dx ) for dx # 0, in units of 45 degrees
atan2(dy, dx) ==
  IF dx > 0 THEN (IF dy > 0 THEN 1 ELSE IF dy < 0 THEN -1 ELSE 0)
  ELSE (IF dy > 0 THEN 3 ELSE IF dy < 0 THEN -3 ELSE 4)

\* the keys of std::map center_lane in iteration (ascending) order
RECURSIVE SortedKeys(_)
SortedKeys(S) ==
  IF S = {} THEN <<>>
  ELSE LET m == CHOOSE x \in S : \A y \in S : x <= y
       IN <<m>> \o SortedKeys(S \ {m})

\* latest_route.get_length(): the arc length of the last center-lane sample
get_length(center_lane) ==
  IF center_lane = {} THEN 0
  ELSE CHOOSE x \in center_lane : \A y \in center_lane : y <= x

(* ------------- setup_optimizer_parameters_using_route ------------------ *)

\* line 293
maximum_required_road_length == sim_time * max_forward_speed

\* lines 314-330: the downsampling loop over center_lane
RECURSIVE downsample(_, _, _, _)
downsample(keys, state_s, previous_s, kept) ==
  IF keys = <<>> THEN kept
  ELSE LET s == Head(keys)
           local_progress == s - state_s
       IN IF s < state_s
            THEN downsample(Tail(keys), state_s, previous_s, kept)
          ELSE IF s - state_s > maximum_required_road_length
            THEN kept
          ELSE IF local_progress - previous_s > sample_spacing
            THEN downsample(Tail(keys), state_s, local_progress,
                            Append(kept, local_progress))
          ELSE downsample(Tail(keys), state_s, previous_s, kept)

\* the safety check with 2 in place of 3
too_few_samples_two(s) == Len(s) < min_route_samples - 1

\* line 332: too few samples to fit a route
too_few_samples(s) == Len(s) < min_route_samples

\* line 336 left out
pin_first_skipped(s) == s

\* line 336: the first kept progress value is overwritten with 0
pin_first(s) == [s EXCEPT ![1] = 0]

\* lines 344-351: the heading loop; d[i] = [dx, dy] is the spline derivative
\* at kept sample i, for every sample but the last, which the loop skips.  Returns the headings pushed and whether the loop
\* returned early on a zero x-derivative.
RECURSIVE heading_loop(_, _, _, _)
heading_loop(d, i, n, psi) ==
  IF ~(n > 0 /\ i < n) THEN [psi |-> psi, degenerate |-> FALSE]
  ELSE IF d[i].dx = 0 THEN [psi |-> psi, degenerate |-> TRUE]
  ELSE heading_loop(d, i + 1, n, Append(psi, atan2(d[i].dy, d[i].dx)))

\* line 352: psi[ s.size() - 1 ] = psi[ s.size() - 2 ] through
\* std::vector::operator[], which never changes the vector's size.  The
\* write is inside the vector only if index n (1-based) exists.
last_heading_write_in_bounds(psi, n) == n <= Len(psi) /\ n - 1 >= 1

write_last_heading(psi, n) ==
  IF last_heading_write_in_bounds(psi, n)
    THEN [psi EXCEPT ![n] = psi[n - 1]]
    ELSE psi

\* The whole builder.  rtf is the member route_to_follow before the call,
\* d the derivative samples the spline evaluation returns.  Result: the
\* returned route, route_to_follow after the call, and what happened.
setup_optimizer_parameters_using_route(center_lane, state_s, d, rtf) ==
  LET none == [route |-> EmptyRoute, rtf |-> rtf, n_kept |-> 0,
               filtered |-> FALSE, degenerate |-> FALSE,
               oob_write |-> FALSE]
  IN
  IF maximum_required_road_length < min_distance_in_route THEN none
  ELSE IF center_lane = {} THEN none
  ELSE
    LET kept == downsample(SortedKeys(center_lane), state_s, 0, <<>>)
        n    == Len(kept)
    IN
    IF too_few_samples(kept)
      THEN [none EXCEPT !.rtf = [s |-> kept, psi |-> <<>>],
                        !.n_kept = n, !.filtered = TRUE]
    ELSE
      LET s  == pin_first(kept)
          hl == heading_loop(d, 1, n, <<>>)
      IN
      IF hl.degenerate
        THEN [route |-> [x |-> CubicSplineSmoother(s),
                         y |-> CubicSplineSmoother(s),
                         heading |-> EmptySpline],
              rtf |-> [s |-> s, psi |-> hl.psi],
              n_kept |-> n, filtered |-> TRUE, degenerate |-> TRUE,
              oob_write |-> FALSE]
      ELSE
        LET psi == write_last_heading(hl.psi, n)
        IN [route |-> [x |-> CubicSplineSmoother(s),
                       y |-> CubicSplineSmoother(s),
                       heading |-> CubicSplineSmoother(s)],
            rtf |-> [s |-> s, psi |-> psi],
            n_kept |-> n, filtered |-> TRUE, degenerate |-> FALSE,
            oob_write |-> ~last_heading_write_in_bounds(hl.psi, n)]

(* --------------------------- plan_trajectory --------------------------- *)

\* options.timeStep = sim_time / control_points (line 31); a forward
\* difference divided by the time step (lines 193-194)
forward_difference(next, current) == ((next - current) * control_points) \div sim_time

\* lines 169-178: the scan that classifies the solver result
is_bad(opt_x, last_objective_function) ==
  \E i \in 1..control_points :
     \/ last_objective_function > threshold_bad_output
     \/ opt_x[i].V > max_forward_speed
     \/ opt_x[i].V < max_reverse_speed
     \/ (IF opt_x[i].dDELTA < 0 THEN -opt_x[i].dDELTA ELSE opt_x[i].dDELTA)
          > max_steering_velocity

\* lines 165-168: the counter is reset before the scan
reset_bad_counter(counter) ==
  IF counter > bad_counter_reset_above THEN 0 ELSE counter

\* the scan without its break: a second bad sample is counted too
count_bad_every_sample(bad, counter) == IF bad THEN counter + 2 ELSE counter

\* lines 173-177: a bad result is counted once
count_bad(bad, counter) == IF bad THEN counter + 1 ELSE counter

\* the acceptance test with the limit off by one
accepted_below_four(bad, counter) == bad = FALSE /\ counter < bad_counter_limit - 1

\* line 206: the acceptance test
accepted(bad, counter) == bad = FALSE /\ counter < bad_counter_limit

\* the extraction without lines 198-199: the last sample keeps its defaults
planned_trajectory_no_copy(opt_x) ==
  [i \in 1..control_points |->
     [yaw_angle     |-> opt_x[i].PSI,
      vx            |-> opt_x[i].V,
      steering_rate |-> opt_x[i].dDELTA,
      yaw_rate      |-> IF i < control_points
                          THEN ((opt_x[i + 1].PSI - opt_x[i].PSI) * control_points) \div sim_time
                          ELSE 0,
      ax            |-> IF i < control_points
                          THEN ((opt_x[i + 1].V - opt_x[i].V) * control_points) \div sim_time
                          ELSE 0]]

\* lines 180-199: the trajectory extracted from the solver result
planned_trajectory(opt_x) ==
  LET states ==
        [i \in 1..control_points |->
           [yaw_angle     |-> opt_x[i].PSI,
            vx            |-> opt_x[i].V,
            steering_rate |-> opt_x[i].dDELTA,
            yaw_rate      |-> IF i < control_points
                                THEN forward_difference(opt_x[i + 1].PSI, opt_x[i].PSI)
                                ELSE 0,
            ax            |-> IF i < control_points
                                THEN forward_difference(opt_x[i + 1].V, opt_x[i].V)
                                ELSE 0]]
  IN [states EXCEPT
        ![control_points].yaw_rate = states[control_points - 1].yaw_rate,
        ![control_points].ax       = states[control_points - 1].ax]

\* the check of line 138 left out
route_valid_unchecked(rx) == TRUE

\* line 138: the reference route is usable
route_valid(rx) == ~(Len(rx.breaks) < 1)

(* ------------------------------ inputs --------------------------------- *)

\* routes: the arc-length keys of center_lane
Routes == {r \in SUBSET (0..MaxS) : Cardinality(r) <= MaxSamples}

\* the routes given to plan_trajectory: none, too short, long enough
PlanRoutes == {{}, {0, 2, 4}, {0, 2, 4, 6}}

EgoPositions == 0..MaxEgoS

\* derivative samples [dx, dy] returned by pp.CubicSplineEvaluation
Derivatives == {[dx |-> 1, dy |-> 1], [dx |-> 0, dy |-> 1]}

\* samples of the solver's optimal state sequence
SolverSamples ==
  { [PSI |-> 0, V |-> 0, dDELTA |-> 0],
    [PSI |-> 1, V |-> max_forward_speed, dDELTA |-> -max_steering_velocity],
    [PSI |-> 0, V |-> max_forward_speed + 1, dDELTA |-> 0],
    [PSI |-> 0, V |-> max_reverse_speed - 1, dDELTA |-> 0],
    [PSI |-> 1, V |-> 0, dDELTA |-> -(max_steering_velocity + 1)] }

SolverOutputs == [1..control_points -> SolverSamples]

Objectives == {0, threshold_bad_output + 1}

\* what a run with undefined behaviour can do: go on, or be terminated
UBOutcomes == {"continue", "abort"}

NoCall == [op |-> "none", lane_empty |-> FALSE, route_length |-> 0,
           n_kept |-> 0, filtered |-> FALSE, degenerate |-> FALSE,
           oob_write |-> FALSE, route |-> EmptyRoute, valid |-> FALSE,
           solver_invoked |-> FALSE, validated |-> FALSE, bad |-> FALSE,
           returned_planned |-> FALSE, stored_planned |-> FALSE,
           ret |-> <<>>, run |-> 0, prior_run |-> 0]

Init ==
  /\ bad_counter = bad_counter_init
  /\ bad_condition = FALSE
  /\ previous_trajectory = <<>>
  /\ route_x = EmptySpline
  /\ route_y = EmptySpline
  /\ route_heading = EmptySpline
  /\ route_to_follow = [s |-> <<>>, psi |-> <<>>]
  /\ crashed = FALSE
  /\ call = NoCall

\* number of samples the downsampling loop keeps
kept_count(center_lane, state_s) ==
  Len(downsample(SortedKeys(center_lane), state_s, 0, <<>>))

\* the entries of dx, dy (lines 342-343) that the heading loop can read:
\* all but the last
derivatives_read(center_lane, state_s) ==
  1..(kept_count(center_lane, state_s) - 1)

\* the run of consecutive bad solves ending with this call (observation)
next_run(bad) ==
  IF bad
    THEN (IF call.run <= bad_counter_limit THEN call.run + 1 ELSE call.run)
    ELSE 0

\* lines 121-216
plan_trajectory ==
  /\ ~crashed
  /\ \E center_lane \in PlanRoutes, state_s \in EgoPositions :
     \E d \in [derivatives_read(center_lane, state_s) -> Derivatives] :
     \E b \in {setup_optimizer_parameters_using_route(center_lane, state_s, d,
                                                       route_to_follow)} :
     \E obs \in {[NoCall EXCEPT !.op = "plan", !.lane_empty = (center_lane = {}),
                     !.route_length = get_length(center_lane),
                     !.n_kept = b.n_kept,
                     !.filtered = b.filtered, !.degenerate = b.degenerate,
                     !.oob_write = b.oob_write, !.route = b.route,
                     !.valid = route_valid(b.route.x)]} :
       \E builder_outcome \in (IF b.oob_write THEN UBOutcomes ELSE {"continue"}) :
         /\ route_to_follow' = b.rtf
         /\ IF builder_outcome = "abort"
              THEN \* terminated at line 352
                   /\ crashed' = TRUE
                   /\ call' = [obs EXCEPT !.op = "abort"]
                   /\ UNCHANGED <<bad_counter, bad_condition, previous_trajectory,
                                  route_x, route_y, route_heading>>
              ELSE
                \* line 137: setup_reference_route
                /\ route_x' = b.route.x
                /\ route_y' = b.route.y
                /\ route_heading' = b.route.heading
                /\ IF ~route_valid(b.route.x)
                     THEN \* lines 138-143
                          /\ call' = [obs EXCEPT !.ret = <<>>]
                          /\ UNCHANGED <<bad_counter, bad_condition,
                                         previous_trajectory, crashed>>
                     ELSE
                       \* lines 146-158: an empty heading spline is evaluated
                       \* by setup_reference_velocity and by the dynamic model
                       \E solve_outcome \in (IF ~route_valid(b.route.heading)
                                               THEN UBOutcomes ELSE {"continue"}) :
                         IF solve_outcome = "abort"
                           THEN /\ crashed' = TRUE
                                /\ call' = [obs EXCEPT !.op = "abort"]
                                /\ UNCHANGED <<bad_counter, bad_condition,
                                               previous_trajectory>>
                           ELSE
                             \E opt_x \in SolverOutputs,
                                last_objective_function \in Objectives :
                               \E counter \in {reset_bad_counter(bad_counter)},
                                  bad \in {is_bad(opt_x, last_objective_function)},
                                  planned \in {planned_trajectory(opt_x)} :
                               \E counted \in {count_bad(bad, counter)},
                                  seen \in {[obs EXCEPT !.solver_invoked = TRUE,
                                                 !.validated = TRUE, !.bad = bad,
                                                 !.run = next_run(bad),
                                                 !.prior_run = call.run]} :
                               \E accept \in {accepted(bad, counted)} :
                               \E ret \in {IF accept THEN planned
                                                      ELSE previous_trajectory} :
                                 /\ bad_condition' = bad
                                 /\ UNCHANGED crashed
                                 \* lines 206-215
                                 /\ previous_trajectory' =
                                      IF accept THEN planned ELSE previous_trajectory
                                 /\ bad_counter' = IF accept THEN 0 ELSE counted
                                 /\ call' = [seen EXCEPT !.ret = ret,
                                      !.returned_planned = (ret = planned),
                                      !.stored_planned =
                                         (previous_trajectory' = planned)]

\* lines 285-360, called on its own
build ==
  /\ ~crashed
  /\ \E center_lane \in Routes, state_s \in EgoPositions :
     \E d \in [derivatives_read(center_lane, state_s) -> Derivatives] :
     \E b \in {setup_optimizer_parameters_using_route(center_lane, state_s, d,
                                                       route_to_follow)} :
       \E builder_outcome \in (IF b.oob_write THEN UBOutcomes ELSE {"continue"}) :
         /\ route_to_follow' = b.rtf
         /\ crashed' = (builder_outcome = "abort")
         /\ call' = [NoCall EXCEPT
                       !.op = IF builder_outcome = "abort" THEN "abort" ELSE "build",
                       !.lane_empty = (center_lane = {}),
                       !.route_length = get_length(center_lane),
                       !.n_kept = b.n_kept, !.filtered = b.filtered,
                       !.degenerate = b.degenerate, !.oob_write = b.oob_write,
                       !.route = b.route, !.valid = route_valid(b.route.x)]
         /\ UNCHANGED <<bad_counter, bad_condition, previous_trajectory,
                        route_x, route_y, route_heading>>

Next == plan_trajectory

Spec == Init /\ [][Next]_vars

NextBuilder == build

SpecBuilder == Init /\ [][NextBuilder]_vars

(* ------------------------------ claims --------------------------------- *)

StrictlyIncreasing(s) == \A i \in 1..(Len(s) - 1) : s[i] < s[i + 1]

\* C1 as stated: a call with a valid reference path and a bad solve returns
\* the stored previous_trajectory, leaves previous_trajectory as it was, and
\* leaves bad_counter exactly one above its value before the call.
C1_bad_solve_increments_by_one ==
  [][ (call'.op = "plan" /\ call'.valid /\ call'.bad)
        => /\ call'.ret = previous_trajectory
           /\ previous_trajectory' = previous_trajectory
           /\ bad_counter' = bad_counter + 1 ]_vars

\* C1 amended: a call with a valid reference path and a bad solve returns the
\* stored previous_trajectory and leaves it as it was; bad_counter afterwards
\* is one above its value before the call when that value was at most 4, and
\* is 1 when that value was 5 (the counter is reset before the scan).
C1_bad_solve_falls_back ==
  [][ (call'.op = "plan" /\ call'.valid /\ call'.bad)
        => /\ call'.ret = previous_trajectory
           /\ previous_trajectory' = previous_trajectory
           /\ bad_counter' = (IF bad_counter <= 4 THEN bad_counter + 1 ELSE 1)
           /\ bad_counter <= 5 ]_vars

\* a bad solve that met a stored trajectory and a counter of 5
C1_witness ==
  /\ call.op = "plan" /\ call.valid /\ call.bad
  /\ call.prior_run = 5 /\ bad_counter = 1
  /\ call.ret # <<>> /\ call.ret = previous_trajectory

\* C2: a bad solve on the 6th consecutive bad cycle is accepted: the call
\* returns the newly planned trajectory and stores it as previous_trajectory.
C2_sixth_bad_solve_accepted ==
  (call.op = "plan" /\ call.bad /\ call.prior_run = 5)
    => (call.returned_planned /\ call.stored_planned)

\* C3: plan_trajectory returns an empty trajectory only if the reference path
\* of that call is invalid; a fallback return is never empty.
C3_empty_means_no_route ==
  (call.op = "plan" /\ call.ret = <<>>) => ~call.valid

\* C4: a call with a route without center-lane samples returns a zero-length
\* trajectory, runs neither the solver nor the validation, and leaves
\* previous_trajectory, bad_counter (and bad_condition) as they were.
C4_empty_route_changes_nothing ==
  [][ (call'.op = "plan" /\ call'.lane_empty)
        => /\ call'.ret = <<>>
           /\ ~call'.solver_invoked
           /\ ~call'.validated
           /\ previous_trajectory' = previous_trajectory
           /\ bad_counter' = bad_counter
           /\ bad_condition' = bad_condition ]_vars

\* an empty route given to a planner that holds a trajectory and a count
C4_witness ==
  /\ call.op = "plan" /\ call.lane_empty /\ call.ret = <<>>
  /\ previous_trajectory # <<>> /\ bad_counter = 3

\* C5: when the heading loop meets a zero x-derivative the builder returns an
\* empty Reference Path (no breakpoints in x, y or heading) and the enclosing
\* plan_trajectory call returns an empty trajectory without running the solver.
C5_degenerate_geometry_is_no_route ==
  (call.op = "plan" /\ call.degenerate)
    => /\ call.route = EmptyRoute
       /\ call.ret = <<>>
       /\ ~call.solver_invoked

\* C8: every non-empty trajectory plan_trajectory returns has exactly
\* control_points samples, and its last sample's yaw_rate and ax equal those
\* of its second-to-last sample.
C8_returned_trajectory_shape ==
  (call.op = "plan" /\ call.ret # <<>>)
    => /\ Len(call.ret) = control_points
       /\ call.ret[control_points].yaw_rate = call.ret[control_points - 1].yaw_rate
       /\ call.ret[control_points].ax = call.ret[control_points - 1].ax

\* a fallback return of a stored trajectory whose last rates are not zero
C8_witness ==
  /\ call.op = "plan" /\ call.bad /\ call.ret # <<>>
  /\ call.ret[control_points].yaw_rate # 0
  /\ call.ret[control_points].ax # 0

\* C10: a call with a valid reference path whose solve is not bad returns the
\* newly planned trajectory, stores it as previous_trajectory and leaves
\* bad_counter at 0, however many bad cycles came before.
C10_good_solve_accepted ==
  (call.op = "plan" /\ call.valid /\ call.validated /\ ~call.bad)
    => /\ call.returned_planned
       /\ call.stored_planned
       /\ call.ret = previous_trajectory
       /\ Len(call.ret) = control_points
       /\ bad_counter = 0

\* a good solve right after a run of more than five bad ones
C10_witness ==
  /\ call.op = "plan" /\ call.valid /\ ~call.bad
  /\ call.prior_run = 6 /\ call.returned_planned /\ bad_counter = 0

C7_kept_progress_increasing_from_zero ==
  (call.op \in {"build", "abort"} /\ call.n_kept >= 3)
    => /\ Len(route_to_follow.s) = call.n_kept
       /\ route_to_follow.s[1] = 0
       /\ StrictlyIncreasing(route_to_follow.s)

\* three kept samples, the first of them pinned to 0
C7_witness ==
  /\ call.op = "build" /\ call.n_kept = 3
  /\ Len(route_to_follow.s) = 3 /\ route_to_follow.s[1] = 0
  /\ route_to_follow.s[2] > 2

\* C9: with n >= 3 kept samples and no zero x-derivative, when the heading
\* spline is fit route_to_follow.psi has n entries, the write to index n-1 is
\* inside psi, and psi[n-1] equals psi[n-2].
C9_last_heading_copied_in_bounds ==
  (call.op = "build" /\ call.n_kept >= 3 /\ ~call.degenerate)
    => /\ Len(route_to_follow.psi) = Len(route_to_follow.s)
       /\ ~call.oob_write
       /\ route_to_follow.psi[call.n_kept] = route_to_follow.psi[call.n_kept - 1]

====
